---- MODULE Spec2Model ----
(***************************************************************************)
(* State machine of the dashboard view of src/frontend/src/App.js: the     *)
(* Data Fetcher (fetchData), the Action Dispatcher (callEndpoint), the     *)
(* Demo Playback Engine (runDemoWorkflow, addLog) and the Tab Router.      *)
(* Every asynchronous function is a process whose position is part of the  *)
(* state; every await is a suspension point between two actions.  The      *)
(* backend is external: its answers are inputs drawn from small sets.      *)
(***************************************************************************)
EXTENDS Integers, Sequences, FiniteSets, TLC

(* ---------------------------------------------------------------------- *)
(* Bounds                                                                 *)
(* ---------------------------------------------------------------------- *)
\* Backend data versions a response can carry.
MaxVer == 2
\* fetchData invocations that can be in flight together.
MaxFetchRuns == 2
\* Button-triggered callEndpoint invocations that can be in flight together.
MaxCalls == 1
\* runDemoWorkflow invocations that can be in flight together.
MaxDemoRuns == 2
\* Largest reading of the wall clock that stamps log entries.
MaxClock == 1
\* addLog calls made in the specification of the log alone.
MaxAppends == 60

\* Longest funnel list the backend serves to the Pipeline tab.
MaxStages == 3

(* ---------------------------------------------------------------------- *)
(* Program constants                                                      *)
(* ---------------------------------------------------------------------- *)
\* Requests of one fetchData batch.
NSlots == 9
\* prev.slice(-50) in addLog.
LogKeep == 50

SlotNames ==
  << "apiStatus", "agents", "dashboardStats", "pipeline", "funnel",
     "jobs", "screeningQueue", "eliteSources", "auditCompliance" >>

\* Position of a named slot in the batch.
SlotOf(name) == CHOOSE i \in 1..NSlots : SlotNames[i] = name

\* The scripted log entries of runDemoWorkflow, in order.
Script ==
  << [agent |-> "Orchestrator", message |-> "Initializing recruiting workflow...", type |-> "system"],
     [agent |-> "Orchestrator", message |-> "Dispatching SourcerAgent for candidate discovery", type |-> "info"],
     [agent |-> "SourcerAgent", message |-> "Connecting to 16 elite sources...", type |-> "info"],
     [agent |-> "SourcerAgent", message |-> "Searching ArXiv for \"robotics manipulation SLAM\"...", type |-> "search"],
     [agent |-> "SourcerAgent", message |-> "Searching HuggingFace for model contributors...", type |-> "search"],
     [agent |-> "SourcerAgent", message |-> "Scanning Papers with Code for recent authors...", type |-> "search"],
     [agent |-> "SourcerAgent", message |-> "Querying ROS Discourse for active contributors...", type |-> "search"],
     [agent |-> "SourcerAgent", message |-> "Found 15 candidates from 6 sources", type |-> "success"],
     [agent |-> "Orchestrator", message |-> "Dispatching MatcherAgent for skills analysis", type |-> "info"],
     [agent |-> "MatcherAgent", message |-> "Extracting research profiles (H-index, citations)...", type |-> "info"],
     [agent |-> "MatcherAgent", message |-> "Applying research-weighted scoring (25% weight)...", type |-> "info"],
     [agent |-> "MatcherAgent", message |-> "Detected 3 independent researchers - applying 10% boost", type |-> "success"],
     [agent |-> "MatcherAgent", message |-> "Skills match complete: 5 candidates above 75% threshold", type |-> "success"],
     [agent |-> "Orchestrator", message |-> "Dispatching ScreenerAgent for AI screening", type |-> "info"],
     [agent |-> "ScreenerAgent", message |-> "Running automated screening checks...", type |-> "info"],
     [agent |-> "ScreenerAgent", message |-> "Flagged 3 candidates for human review (borderline scores)", type |-> "warning"],
     [agent |-> "ScreenerAgent", message |-> "Auto-approved 2 candidates (score > 85%)", type |-> "success"],
     [agent |-> "AuditAgent", message |-> "Logging decisions with full explainability...", type |-> "audit"],
     [agent |-> "AuditAgent", message |-> "Zero PII stored - only hashed candidate IDs", type |-> "audit"],
     [agent |-> "PipelineAgent", message |-> "Moving candidates to appropriate pipeline stages", type |-> "info"],
     [agent |-> "Orchestrator", message |-> "Workflow complete! Human review required for 3 candidates", type |-> "success"] >>

\* Delay[k] is the setTimeout delay, in milliseconds, awaited after entry k.
Delay ==
  << 400, 300, 500, 400, 350, 400, 300, 400, 300, 450,
     400, 350, 400, 300, 500, 350, 400, 300, 350, 400 >>

ScriptLen == Len(Script)

\* The tabs of the navigation bar, in order.
Tabs ==
  << [id |-> "dashboard",    public |-> TRUE],
     [id |-> "safetycase",   public |-> TRUE],
     [id |-> "sources",      public |-> FALSE],
     [id |-> "pipeline",     public |-> FALSE],
     [id |-> "review",       public |-> FALSE],
     [id |-> "audit",        public |-> FALSE],
     [id |-> "agents",       public |-> TRUE],
     [id |-> "architecture", public |-> FALSE] >>

TabIds == {Tabs[i].id : i \in 1..Len(Tabs)}

Slots == 1..NSlots
Vers == 1..MaxVer
RunIds == 1..MaxFetchRuns
CallIds == 1..MaxCalls
DemoIds == 1..MaxDemoRuns

(* ---------------------------------------------------------------------- *)
(* Values                                                                 *)
(* ---------------------------------------------------------------------- *)
\* A slot holds null before the first load, else the last body stored in
\* it: the backend data version it was served from, or an error object.
Null == 0
ErrBody == -1

\* Parsed bodies handed back by callEndpoint.  list says whether the body
\* carries the list its caller looks for (steps[0].data.top_3, candidates).
NullData == [kind |-> "null", ver |-> 0, list |-> FALSE]
ErrData == [kind |-> "obj", ver |-> 0, list |-> FALSE]
OkBodies == {NullData} \cup [kind : {"obj"}, ver : Vers, list : BOOLEAN]

\* if (data): null is falsy, every object is truthy.
Truthy(d) == d.kind # "null"

\* The backend keeps queue_length equal to the number of queued candidates;
\* candidates are flagged for review three at a time, so each new data
\* version has three queued candidates fewer, and the last has none.
QueueLengthOf(v) == 3 * (MaxVer - v)

VARIABLES
  slots,          \* apiStatus .. auditCompliance, by position in the batch
  candidates,     \* the candidate display list: 0 is [], v the list of version v
  demoRunning,
  demoState,
  loading,
  activeTab,
  agentLogs,
  isInternalMode, \* ?internal=true
  mounted,        \* the mount effect has run
  consoleErr,     \* the error last passed to console.error, "" when none
  alertText,      \* what the last alert() showed: "", "data" or "error"
  lastCall,       \* how the last finished callEndpoint invocation ended
  backend,        \* the data version the backend currently serves
  now,            \* the wall clock, in the resolution of a log timestamp
  appended,       \* the entries handed to addLog since the log was last emptied
  funnelStages,   \* the percentage of each stage of funnel.funnel, in order
  variant,        \* which fetchData the view has: "parallel" or "sequential"
  latest,         \* the fetchData run started last of those in flight
  fetches,        \* the fetchData invocations in flight
  calls,          \* the button-triggered callEndpoint invocations in flight
  demos           \* the runDemoWorkflow invocations in flight

vars == << slots, candidates, demoRunning, demoState, loading, activeTab,
           agentLogs, isInternalMode, mounted, consoleErr, alertText,
           lastCall, backend, now, appended, funnelStages, variant, latest,
           fetches, calls, demos >>

viewVars == << slots, candidates, demoRunning, demoState, loading, activeTab,
               agentLogs >>

(* ---------------------------------------------------------------------- *)
(* The network: what the backend answers to one batch of GET requests     *)
(* ---------------------------------------------------------------------- *)
FaultKinds == {"reject", "text200", "json500", "text500"}

NoFault == [kind |-> "none", pos |-> 0]

Faults == {NoFault} \cup [kind : FaultKinds, pos : Slots]

\* The answer to request i of a batch served from backend version v in
\* which fault f occurs.
Response(f, v, i) ==
  IF f.kind = "none" \/ f.pos # i
    THEN [rejected |-> FALSE, status |-> 200, isJson |-> TRUE, body |-> v]
  ELSE IF f.kind = "reject"
    THEN [rejected |-> TRUE, status |-> 0, isJson |-> FALSE, body |-> Null]
  ELSE IF f.kind = "text200"
    THEN [rejected |-> FALSE, status |-> 200, isJson |-> FALSE, body |-> Null]
  ELSE IF f.kind = "json500"
    THEN [rejected |-> FALSE, status |-> 500, isJson |-> TRUE, body |-> ErrBody]
  ELSE [rejected |-> FALSE, status |-> 500, isJson |-> FALSE, body |-> Null]

\* The answers to the single request of a callEndpoint invocation.
CallResponses ==
  {[rejected |-> TRUE, status |-> 0, isJson |-> FALSE, body |-> NullData]}
  \cup [rejected : {FALSE}, status : {200}, isJson : {TRUE}, body : OkBodies]
  \cup [rejected : {FALSE}, status : {500}, isJson : {TRUE}, body : {ErrData}]
  \cup [rejected : {FALSE}, status : {200, 500}, isJson : {FALSE}, body : {NullData}]

(* ---------------------------------------------------------------------- *)
(* addLog                                                                 *)
(* ---------------------------------------------------------------------- *)
\* prev.slice(-n): the last n elements of prev, all of it when shorter.
SliceLast(prev, n) ==
  IF Len(prev) <= n THEN prev ELSE SubSeq(prev, Len(prev) - n + 1, Len(prev))

LogEntry(e, t) ==
  [timestamp |-> t, agent |-> e.agent, message |-> e.message, type |-> e.type]

\* Variant: the new entry is put in front of the retained ones.
addLog_prepend(prev, e, t) == << LogEntry(e, t) >> \o SliceLast(prev, LogKeep)

\* setAgentLogs(prev => [...prev.slice(-50), {timestamp, agent, message, type}])
addLog(prev, e, t) == Append(SliceLast(prev, LogKeep), LogEntry(e, t))

(* ---------------------------------------------------------------------- *)
(* fetchData                                                              *)
(* ---------------------------------------------------------------------- *)
IdleRun == [st |-> "idle", k |-> 0, ver |-> 0, fault |-> NoFault]

\* No run is in flight.
NoLatest == [run |-> 0, ver |-> 0]

\* Run r ends: the run started last is remembered, with the version it
\* fetched, for as long as another run is in flight.
AfterEnd(r) ==
  IF \A q \in RunIds \ {r} : fetches[q].st = "idle" THEN NoLatest ELSE latest

\* The funnel the backend serves in data version v: the percentage of the
\* candidates that reached each stage, first stage first.
FunnelOf(v) == << 100, 40, 5 * v >>

\* funnel?.funnel of a body stored in the funnel slot.
StagesOf(body) == IF body \in Vers THEN FunnelOf(body) ELSE << >>

\* Variant: a join that waits for every request and never rejects.
PromiseAll_allSettled(f, v) == "fulfilled"

\* Promise.all over the fetch promises of the batch: rejects as soon as one
\* of them rejects, fulfils when all of them have fulfilled.  fetch()
\* fulfils on every HTTP status.
PromiseAll(f, v) ==
  IF \E i \in Slots : Response(f, v, i).rejected THEN "rejected" ELSE "fulfilled"

FreeRuns == {r \in RunIds : fetches[r].st = "idle"}

FirstFreeRun == CHOOSE r \in FreeRuns : \A q \in FreeRuns : r <= q

\* The synchronous head of fetchData: setLoading(true), the requests are
\* issued and the function suspends on Promise.all.
fetchData(r) ==
  /\ loading' = TRUE
  /\ fetches' = [fetches EXCEPT ![r] = [IdleRun EXCEPT !.st = "all"]]
  /\ latest' = [run |-> r, ver |-> 0]

\* The error a failed request or body raises: fetch() rejects with a
\* TypeError, json() with a SyntaxError.
ErrorOf(resp) == IF resp.rejected THEN "TypeError" ELSE "SyntaxError"

\* Variant: setLoading(false) is the last statement of the try block.
FetchDataCatch_loadingKept(r, err) ==
  /\ consoleErr' = err
  /\ fetches' = [fetches EXCEPT ![r] = IdleRun]
  /\ latest' = AfterEnd(r)
  /\ UNCHANGED << slots, loading, alertText, funnelStages >>

\* Variant: the catch block also shows the error to the user.
FetchDataCatch_alerts(r, err) ==
  /\ consoleErr' = err
  /\ alertText' = "error"
  /\ loading' = FALSE
  /\ fetches' = [fetches EXCEPT ![r] = IdleRun]
  /\ latest' = AfterEnd(r)
  /\ UNCHANGED << slots, funnelStages >>

\* The catch block of fetchData and the line after it.
FetchDataCatch(r, err) ==
  /\ consoleErr' = err
  /\ loading' = FALSE
  /\ fetches' = [fetches EXCEPT ![r] = IdleRun]
  /\ latest' = AfterEnd(r)
  /\ UNCHANGED << slots, alertText, funnelStages >>

\* Promise.all settles for run r: the batch was served from version v with
\* fault f.
FetchSettle(r, f, v) ==
  /\ fetches[r].st = "all"
  /\ v = backend
  /\ IF PromiseAll(f, v) = "rejected"
       THEN FetchDataCatch(r, "TypeError")
       ELSE /\ fetches' = [fetches EXCEPT ![r] =
                             [st |-> "json", k |-> 1, ver |-> v, fault |-> f]]
            /\ latest' = IF latest.run = r THEN [latest EXCEPT !.ver = v] ELSE latest
            /\ UNCHANGED << slots, loading, consoleErr, alertText, funnelStages >>
  /\ UNCHANGED << candidates, demoRunning, demoState, activeTab, agentLogs,
                  isInternalMode, variant, backend, mounted, lastCall, now, appended,
                  calls, demos >>

\* Variant: the last response is parsed but its setter is missing.
FetchJson_lastSkipped(r) ==
  /\ fetches[r].st = "json"
  /\ LET run == fetches[r]
         resp == Response(run.fault, run.ver, run.k)
     IN IF resp.isJson
          THEN /\ IF run.k < NSlots
                    THEN /\ slots' = [slots EXCEPT ![run.k] = resp.body]
                         /\ funnelStages' = IF run.k = SlotOf("funnel")
                                              THEN StagesOf(resp.body)
                                              ELSE funnelStages
                         /\ fetches' = [fetches EXCEPT ![r].k = run.k + 1]
                         /\ UNCHANGED << loading, latest >>
                    ELSE /\ fetches' = [fetches EXCEPT ![r] = IdleRun]
                         /\ latest' = AfterEnd(r)
                         /\ loading' = FALSE
                         /\ UNCHANGED << slots, funnelStages >>
               /\ UNCHANGED << consoleErr, alertText >>
          ELSE FetchDataCatch(r, ErrorOf(resp))
  /\ UNCHANGED << candidates, demoRunning, demoState, activeTab, agentLogs,
                  isInternalMode, variant, backend, mounted, lastCall, now, appended,
                  calls, demos >>

\* The json() promise of response k settles: set<Slot>(await xRes.json()),
\* then the next json() is awaited or, after the last one, setLoading(false).
FetchJson(r) ==
  /\ fetches[r].st = "json"
  /\ LET run == fetches[r]
         resp == Response(run.fault, run.ver, run.k)
     IN IF resp.isJson
          THEN /\ slots' = [slots EXCEPT ![run.k] = resp.body]
               /\ funnelStages' = IF run.k = SlotOf("funnel")
                                    THEN StagesOf(resp.body)
                                    ELSE funnelStages
               /\ IF run.k < NSlots
                    THEN /\ fetches' = [fetches EXCEPT ![r].k = run.k + 1]
                         /\ UNCHANGED << loading, latest >>
                    ELSE /\ fetches' = [fetches EXCEPT ![r] = IdleRun]
                         /\ latest' = AfterEnd(r)
                         /\ loading' = FALSE
               /\ UNCHANGED << consoleErr, alertText >>
          ELSE FetchDataCatch(r, ErrorOf(resp))
  /\ UNCHANGED << candidates, demoRunning, demoState, activeTab, agentLogs,
                  isInternalMode, variant, backend, mounted, lastCall, now, appended,
                  calls, demos >>

\* useEffect(() => { fetchData(); }, [fetchData])
Mount ==
  /\ ~mounted
  /\ mounted' = TRUE
  /\ fetchData(FirstFreeRun)
  /\ UNCHANGED << slots, candidates, demoRunning, demoState, activeTab,
                  agentLogs, isInternalMode, funnelStages, variant, backend, consoleErr, alertText, lastCall,
                  now, appended, calls, demos >>

\* The Refresh button of the navigation bar: onClick={fetchData}.
ClickRefresh ==
  /\ mounted
  /\ FreeRuns # {}
  /\ fetchData(FirstFreeRun)
  /\ UNCHANGED << slots, candidates, demoRunning, demoState, activeTab,
                  agentLogs, isInternalMode, funnelStages, variant, backend, mounted, consoleErr, alertText,
                  lastCall, now, appended, calls, demos >>

(* ---------------------------------------------------------------------- *)
(* The sequential fetchData of the two-slot view                          *)
(* ---------------------------------------------------------------------- *)
\* The two-slot view loads apiStatus and agents, the first two slots.
NSeqSlots == 2

\* The synchronous head: setLoading(true), the status request is issued.
seqFetchData(r) ==
  /\ loading' = TRUE
  /\ fetches' = [fetches EXCEPT ![r] = [IdleRun EXCEPT !.st = "seqFetch", !.k = 1]]
  /\ latest' = [run |-> r, ver |-> 0]

\* useEffect(() => { fetchData(); }, [])
SeqMount ==
  /\ variant = "sequential"
  /\ ~mounted
  /\ mounted' = TRUE
  /\ seqFetchData(FirstFreeRun)
  /\ UNCHANGED << slots, candidates, demoRunning, demoState, activeTab,
                  agentLogs, isInternalMode, funnelStages, variant, backend,
                  consoleErr, alertText, lastCall, now, appended, calls, demos >>

\* <button onClick={fetchData}>Refresh</button>
SeqClickRefresh ==
  /\ variant = "sequential"
  /\ mounted
  /\ FreeRuns # {}
  /\ seqFetchData(FirstFreeRun)
  /\ UNCHANGED << slots, candidates, demoRunning, demoState, activeTab,
                  agentLogs, isInternalMode, funnelStages, variant, backend,
                  mounted, consoleErr, alertText, lastCall, now, appended,
                  calls, demos >>

\* catch (err) { console.error(...) }  setLoading(false)
SeqFetchDataCatch(r, err) ==
  /\ consoleErr' = err
  /\ loading' = FALSE
  /\ fetches' = [fetches EXCEPT ![r] = IdleRun]
  /\ latest' = AfterEnd(r)
  /\ UNCHANGED slots

\* The fetch promise of the request in flight settles: it is request
\* fetches[r].k, served from version v under fault f.
SeqFetchSettle(r, f, v) ==
  /\ fetches[r].st = "seqFetch"
  /\ v = backend
  /\ IF Response(f, v, fetches[r].k).rejected
       THEN SeqFetchDataCatch(r, "TypeError")
       ELSE /\ fetches' = [fetches EXCEPT ![r].st = "seqJson", ![r].ver = v,
                                          ![r].fault = f]
            /\ latest' = IF latest.run = r THEN [latest EXCEPT !.ver = v] ELSE latest
            /\ UNCHANGED << slots, loading, consoleErr >>
  /\ UNCHANGED << candidates, demoRunning, demoState, activeTab, agentLogs,
                  isInternalMode, funnelStages, variant, backend, mounted,
                  alertText, lastCall, now, appended, calls, demos >>

\* Variant: each request has a try/catch of its own, so the agents
\* request follows a status body that did not parse.
SeqFetchJson_continues(r) ==
  /\ fetches[r].st = "seqJson"
  /\ LET run == fetches[r]
         resp == Response(run.fault, run.ver, run.k)
     IN /\ slots' = IF resp.isJson THEN [slots EXCEPT ![run.k] = resp.body]
                                   ELSE slots
        /\ consoleErr' = IF resp.isJson THEN consoleErr ELSE ErrorOf(resp)
        /\ IF run.k < NSeqSlots
             THEN /\ fetches' = [fetches EXCEPT ![r].st = "seqFetch",
                                                ![r].k = run.k + 1]
                  /\ UNCHANGED << loading, latest >>
             ELSE /\ fetches' = [fetches EXCEPT ![r] = IdleRun]
                  /\ latest' = AfterEnd(r)
                  /\ loading' = FALSE
  /\ UNCHANGED << candidates, demoRunning, demoState, activeTab, agentLogs,
                  isInternalMode, funnelStages, variant, backend, mounted,
                  alertText, lastCall, now, appended, calls, demos >>

\* The json() promise of the response in hand settles: the body is stored
\* in its slot; after the status the agents request is issued, after the
\* agents setLoading(false).
SeqFetchJson(r) ==
  /\ fetches[r].st = "seqJson"
  /\ LET run == fetches[r]
         resp == Response(run.fault, run.ver, run.k)
     IN IF resp.isJson
          THEN /\ slots' = [slots EXCEPT ![run.k] = resp.body]
               /\ IF run.k < NSeqSlots
                    THEN /\ fetches' = [fetches EXCEPT ![r].st = "seqFetch",
                                                       ![r].k = run.k + 1]
                         /\ UNCHANGED << loading, latest >>
                    ELSE /\ fetches' = [fetches EXCEPT ![r] = IdleRun]
                         /\ latest' = AfterEnd(r)
                         /\ loading' = FALSE
               /\ UNCHANGED consoleErr
          ELSE SeqFetchDataCatch(r, ErrorOf(resp))
  /\ UNCHANGED << candidates, demoRunning, demoState, activeTab, agentLogs,
                  isInternalMode, funnelStages, variant, backend, mounted,
                  alertText, lastCall, now, appended, calls, demos >>

(* ---------------------------------------------------------------------- *)
(* Rendering                                                              *)
(* ---------------------------------------------------------------------- *)
\* screeningQueue?.queue_length > 0
QueuePositive == slots[SlotOf("screeningQueue")] \in Vers
                   /\ QueueLengthOf(slots[SlotOf("screeningQueue")]) > 0

\* !screeningQueue?.candidates || screeningQueue.candidates.length === 0
QueueEmpty == ~QueuePositive

\* Variant: the filter looks at the mode only, not at t.show.
TabRendered_noShow(id) ==
  \E i \in 1..Len(Tabs) :
    /\ Tabs[i].id = id
    /\ isInternalMode \/ Tabs[i].public

\* The filter of the navigation bar: (isInternalMode || t.public) && t.show
TabRendered(id) ==
  \E i \in 1..Len(Tabs) :
    /\ Tabs[i].id = id
    /\ isInternalMode \/ Tabs[i].public
    /\ id = "review" => QueuePositive

\* The number in the badge of the Review tab control, 0 when the control
\* or its badge is not rendered.
ReviewBadge ==
  IF TabRendered("review") /\ QueuePositive
    THEN QueueLengthOf(slots[SlotOf("screeningQueue")])
    ELSE 0

\* <main> renders the active tab's function only when loading is false.
TabShown(id) == ~loading /\ activeTab = id

\* What the stats cards of the Dashboard show: the loading line of <main>
\* while loading; otherwise the fields of dashboardStats, each with its
\* inline default (|| 0, || 6, || 82, || 3, || 12) when the slot is null.
DashboardStatsCards ==
  IF activeTab # "dashboard" THEN "hidden"
  ELSE IF loading THEN "placeholder"
  ELSE IF slots[SlotOf("dashboardStats")] \in Vers THEN "values"
  ELSE "defaults"

\* Dashboard: <button onClick={runDemoWorkflow} disabled={demoRunning}>
DashboardDemoButton == TabShown("dashboard") /\ ~demoRunning

\* Review: <button onClick={runDemoWorkflow}> under the empty-queue notice.
ReviewDemoButton == TabShown("review") /\ QueueEmpty

\* Dashboard: the Clear button of the activity log.
ClearButton == TabShown("dashboard") /\ ~demoRunning /\ Len(agentLogs) > 0

\* Variant: the navigation bar renders a control for every tab.
setActiveTab_unfiltered(id) ==
  /\ mounted
  /\ id \in TabIds
  /\ activeTab' = id
  /\ UNCHANGED << slots, candidates, demoRunning, demoState, loading,
                  agentLogs, isInternalMode, funnelStages, variant, backend, mounted, consoleErr, alertText,
                  lastCall, now, appended, fetches, latest, calls, demos >>

\* Variant: the click handler of a tab also reloads the data.
setActiveTab_refetch(id) ==
  /\ mounted
  /\ TabRendered(id)
  /\ activeTab' = id
  /\ FreeRuns # {}
  /\ fetchData(FirstFreeRun)
  /\ UNCHANGED << slots, candidates, demoRunning, demoState,
                  agentLogs, isInternalMode, funnelStages, variant, backend, mounted, consoleErr, alertText,
                  lastCall, now, appended, calls, demos >>

\* onClick={() => setActiveTab(t.id)}
setActiveTab(id) ==
  /\ mounted
  /\ TabRendered(id)
  /\ activeTab' = id
  /\ UNCHANGED << slots, candidates, demoRunning, demoState, loading,
                  agentLogs, isInternalMode, funnelStages, variant, backend, mounted, consoleErr, alertText,
                  lastCall, now, appended, fetches, latest, calls, demos >>

\* onClick={() => setAgentLogs([])}
ClickClear ==
  /\ ClearButton
  /\ agentLogs' = << >>
  /\ appended' = << >>
  /\ UNCHANGED << slots, candidates, demoRunning, demoState, loading,
                  activeTab, isInternalMode, funnelStages, variant, backend, mounted, consoleErr, alertText,
                  lastCall, now, fetches, latest, calls, demos >>

\* The query string of the location changes without a reload
\* (history.pushState); isInternalMode is read from it on every render.
LocationChange ==
  /\ isInternalMode' = ~isInternalMode
  /\ UNCHANGED << slots, candidates, demoRunning, demoState, loading,
                  activeTab, agentLogs, funnelStages, variant, backend, mounted,
                  consoleErr, alertText, lastCall, now, appended, fetches, latest,
                  calls, demos >>

\* The data of the backend change: it serves the next version from now on.
BackendUpdate ==
  /\ backend < MaxVer
  /\ backend' = backend + 1
  /\ UNCHANGED << slots, candidates, demoRunning, demoState, loading,
                  activeTab, agentLogs, isInternalMode, funnelStages, variant, mounted, consoleErr,
                  alertText, lastCall, now, appended, fetches, latest, calls, demos >>

\* The wall clock advances.
ClockTick ==
  /\ now < MaxClock
  /\ now' = now + 1
  /\ UNCHANGED << slots, candidates, demoRunning, demoState, loading,
                  activeTab, agentLogs, isInternalMode, funnelStages, variant, backend, mounted, consoleErr,
                  alertText, lastCall, appended, fetches, latest, calls, demos >>

(* ---------------------------------------------------------------------- *)
(* callEndpoint                                                           *)
(* ---------------------------------------------------------------------- *)
NoResponse == [rejected |-> FALSE, status |-> 0, isJson |-> FALSE, body |-> NullData]

IdleCall == [st |-> "idle", caller |-> "none", showAlert |-> FALSE, resp |-> NoResponse]

NoCall == [caller |-> "none", resp |-> NoResponse, threw |-> FALSE, ret |-> NullData]

\* Variant: no try/catch around the request, a failure is thrown on.
callEndpointResult_rethrow(showAlert, resp) ==
  IF resp.rejected \/ ~resp.isJson
    THEN [threw |-> TRUE, ret |-> NullData, alert |-> "", refresh |-> FALSE]
    ELSE [threw |-> FALSE, ret |-> resp.body,
          alert |-> IF showAlert THEN "data" ELSE "", refresh |-> TRUE]

\* Variant: the refresh after a successful request is left out in the
\* public mode.
callEndpointResult_refreshInternal(showAlert, resp) ==
  IF resp.rejected \/ ~resp.isJson
    THEN [threw |-> FALSE, ret |-> NullData,
          alert |-> IF showAlert THEN "error" ELSE "", refresh |-> FALSE]
    ELSE [threw |-> FALSE, ret |-> resp.body,
          alert |-> IF showAlert THEN "data" ELSE "", refresh |-> isInternalMode]

\* Variant: fetchData() is called after the try/catch, on both paths.
callEndpointResult_refreshAlways(showAlert, resp) ==
  IF resp.rejected \/ ~resp.isJson
    THEN [threw |-> FALSE, ret |-> NullData,
          alert |-> IF showAlert THEN "error" ELSE "", refresh |-> TRUE]
    ELSE [threw |-> FALSE, ret |-> resp.body,
          alert |-> IF showAlert THEN "data" ELSE "", refresh |-> TRUE]

\* What one callEndpoint invocation does once its request has been answered
\* by resp: try { fetch; json; alert(data); fetchData(); return data }
\* catch { alert('Error: ...'); return null }.  alert is "" when no alert
\* is shown, refresh says whether fetchData() is called.
callEndpointResult(showAlert, resp) ==
  IF resp.rejected \/ ~resp.isJson
    THEN [threw |-> FALSE, ret |-> NullData,
          alert |-> IF showAlert THEN "error" ELSE "", refresh |-> FALSE]
    ELSE [threw |-> FALSE, ret |-> resp.body,
          alert |-> IF showAlert THEN "data" ELSE "", refresh |-> TRUE]

\* The effects of a finishing callEndpoint invocation on the view.
CompleteCall(who, showAlert, resp) ==
  LET res == callEndpointResult(showAlert, resp)
  IN /\ alertText' = IF res.alert = "" THEN alertText ELSE res.alert
     /\ IF res.refresh
          THEN FreeRuns # {} /\ fetchData(FirstFreeRun)
          ELSE UNCHANGED << loading, fetches, latest >>
     /\ lastCall' = [caller |-> who, resp |-> resp, threw |-> res.threw,
                     ret |-> res.ret]

FreeCalls == {c \in CallIds : calls[c].st = "idle"}

FirstFreeCall == CHOOSE c \in FreeCalls : \A q \in FreeCalls : c <= q

\* A button whose handler is a callEndpoint invocation issues its request.
StartCall(who, showAlert) ==
  /\ FreeCalls # {}
  /\ calls' = [calls EXCEPT ![FirstFreeCall] =
                 [st |-> "fetch", caller |-> who, showAlert |-> showAlert,
                  resp |-> NoResponse]]
  /\ UNCHANGED << slots, candidates, demoRunning, demoState, loading,
                  activeTab, agentLogs, isInternalMode, funnelStages, variant, backend, mounted, consoleErr,
                  alertText, lastCall, now, appended, fetches, latest, demos >>

\* AI Agents tab: onClick={() => callEndpoint(`/api/agents/${name}/action`,
\* 'POST', {action: 'get_stats'})}, one button per agent of the agents slot.
ClickGetStats ==
  /\ TabShown("agents")
  /\ slots[SlotOf("agents")] \in Vers
  /\ StartCall("getStats", TRUE)

\* Dashboard: onClick={searchCandidates}; showAlert is false.
ClickSearch ==
  /\ TabShown("dashboard")
  /\ StartCall("searchCandidates", FALSE)

\* The continuation of the caller once callEndpoint has returned:
\* searchCandidates stores data.candidates when present.
AfterCall(who, resp) ==
  LET res == callEndpointResult(FALSE, resp)
  IN IF who = "searchCandidates" /\ ~res.threw /\ Truthy(res.ret) /\ res.ret.list
       THEN candidates' = res.ret.ver
       ELSE UNCHANGED candidates

\* The fetch promise of call c settles with the head of answer resp.
CallSettle(c, resp) ==
  /\ calls[c].st = "fetch"
  /\ resp.body.ver \in {0, backend}
  /\ IF resp.rejected
       THEN /\ CompleteCall(calls[c].caller, calls[c].showAlert, resp)
            /\ AfterCall(calls[c].caller, resp)
            /\ calls' = [calls EXCEPT ![c] = IdleCall]
       ELSE /\ calls' = [calls EXCEPT ![c].st = "json", ![c].resp = resp]
            /\ UNCHANGED << candidates, loading, alertText, lastCall, fetches, latest >>
  /\ UNCHANGED << slots, demoRunning, demoState, activeTab, agentLogs,
                  isInternalMode, funnelStages, variant, backend, mounted, consoleErr, now, appended, demos >>

\* The json() promise of call c settles.
CallJson(c) ==
  /\ calls[c].st = "json"
  /\ CompleteCall(calls[c].caller, calls[c].showAlert, calls[c].resp)
  /\ AfterCall(calls[c].caller, calls[c].resp)
  /\ calls' = [calls EXCEPT ![c] = IdleCall]
  /\ UNCHANGED << slots, demoRunning, demoState, activeTab, agentLogs,
                  isInternalMode, funnelStages, variant, backend, mounted, consoleErr, now, appended, demos >>

(* ---------------------------------------------------------------------- *)
(* runDemoWorkflow                                                        *)
(* ---------------------------------------------------------------------- *)
IdleDemo == [st |-> "idle", k |-> 0, timer |-> 0, resp |-> NoResponse]

FreeDemos == {d \in DemoIds : demos[d].st = "idle"}

FirstFreeDemo == CHOOSE d \in FreeDemos : \A q \in FreeDemos : d <= q

\* The playbacks suspended on a setTimeout promise.
Timing == {d \in DemoIds : demos[d].st = "timer"}

\* Time left until the next pending timer is due.
MinTimer == CHOOSE m \in {demos[d].timer : d \in Timing} :
              \A d \in Timing : m <= demos[d].timer

RECURSIVE GCD(_, _)
GCD(a, b) == IF b = 0 THEN a ELSE GCD(b, a % b)

RECURSIVE SeqGCD(_, _)
SeqGCD(s, i) == IF i > Len(s) THEN 0 ELSE GCD(s[i], SeqGCD(s, i + 1))

\* Timer due times only compare, so time is counted in the largest unit
\* that divides every delay.
Granule == SeqGCD(Delay, 1)

\* How much time can have gone by, since the last timer event, when the
\* user clicks: no pending timer is overdue.
Elapsable ==
  IF Timing = {} THEN {0} ELSE {e \in 0..MinTimer : e % Granule = 0}

\* e milliseconds go by for every pending timer.
Elapse(ds, e) ==
  [d \in DemoIds |->
     IF ds[d].st = "timer" THEN [ds[d] EXCEPT !.timer = @ - e] ELSE ds[d]]

\* Variant: the log is not emptied when a playback starts.
runDemoWorkflow_noReset(d, e) ==
  /\ demoRunning' = TRUE
  /\ agentLogs' = addLog(agentLogs, Script[1], now)
  /\ appended' = Append(appended, LogEntry(Script[1], now))
  /\ demos' = [Elapse(demos, e) EXCEPT ![d] =
                 [st |-> "timer", k |-> 1, timer |-> Delay[1], resp |-> NoResponse]]
  /\ UNCHANGED << slots, candidates, demoState, loading, activeTab,
                  isInternalMode, funnelStages, variant, backend, mounted, consoleErr, alertText, lastCall,
                  now, fetches, latest, calls >>

\* The synchronous head of runDemoWorkflow, e after the last timer event:
\* setDemoRunning(true); setAgentLogs([]); addLog(first entry); the first
\* timer is set.
runDemoWorkflow(d, e) ==
  /\ demoRunning' = TRUE
  /\ agentLogs' = addLog(<< >>, Script[1], now)
  /\ appended' = << LogEntry(Script[1], now) >>
  /\ demos' = [Elapse(demos, e) EXCEPT ![d] =
                 [st |-> "timer", k |-> 1, timer |-> Delay[1], resp |-> NoResponse]]
  /\ UNCHANGED << slots, candidates, demoState, loading, activeTab,
                  isInternalMode, funnelStages, variant, backend, mounted, consoleErr, alertText, lastCall,
                  now, fetches, latest, calls >>

\* Dashboard: the Run Full Demo button.
ClickRunDemo ==
  /\ DashboardDemoButton
  /\ FreeDemos # {}
  /\ \E e \in Elapsable : runDemoWorkflow(FirstFreeDemo, e)

\* Review: the Run Demo Workflow button.
ClickRunDemoReview ==
  /\ ReviewDemoButton
  /\ FreeDemos # {}
  /\ \E e \in Elapsable : runDemoWorkflow(FirstFreeDemo, e)

\* Variant: the loop over the script stops one entry early, the request is
\* issued before the last entry is appended.
TimerFire_earlyFetch(d) ==
  /\ demos[d].st = "timer"
  /\ demos[d].timer = MinTimer
  /\ LET k == demos[d].k + 1
         rest == Elapse(demos, demos[d].timer)
     IN /\ agentLogs' = addLog(agentLogs, Script[k], now)
        /\ appended' = Append(appended, LogEntry(Script[k], now))
        /\ demos' = [rest EXCEPT ![d] =
                       IF k < ScriptLen - 1
                         THEN [st |-> "timer", k |-> k, timer |-> Delay[k],
                               resp |-> NoResponse]
                         ELSE [st |-> "fetch", k |-> k, timer |-> 0,
                               resp |-> NoResponse]]
  /\ UNCHANGED << slots, candidates, demoRunning, demoState, loading,
                  activeTab, isInternalMode, funnelStages, variant, backend, mounted, consoleErr, alertText,
                  lastCall, now, fetches, latest, calls >>

\* The timer of playback d fires (it is the next one due): the next entry
\* is appended and either the next timer is set or, after the last entry,
\* callEndpoint('/api/demo/workflow', 'GET', null, false) issues its request.
TimerFire(d) ==
  /\ demos[d].st = "timer"
  /\ demos[d].timer = MinTimer
  /\ LET k == demos[d].k + 1
         rest == Elapse(demos, demos[d].timer)
     IN /\ agentLogs' = addLog(agentLogs, Script[k], now)
        /\ appended' = Append(appended, LogEntry(Script[k], now))
        /\ demos' = [rest EXCEPT ![d] =
                       IF k < ScriptLen
                         THEN [st |-> "timer", k |-> k, timer |-> Delay[k],
                               resp |-> NoResponse]
                         ELSE [st |-> "fetch", k |-> k, timer |-> 0,
                               resp |-> NoResponse]]
  /\ UNCHANGED << slots, candidates, demoRunning, demoState, loading,
                  activeTab, isInternalMode, funnelStages, variant, backend, mounted, consoleErr, alertText,
                  lastCall, now, fetches, latest, calls >>

\* Variant: setDemoRunning(false) is inside the if (data) block.
DemoTail_runningInIf(d, resp) ==
  LET res == callEndpointResult(FALSE, resp)
  IN /\ CompleteCall("runDemoWorkflow", FALSE, resp)
     /\ IF res.threw \/ ~Truthy(res.ret)
          THEN UNCHANGED << demoState, candidates, demoRunning >>
          ELSE /\ demoState' = res.ret
               /\ candidates' = IF res.ret.list THEN res.ret.ver ELSE candidates
               /\ demoRunning' = FALSE
     /\ demos' = [demos EXCEPT ![d] = IdleDemo]

\* Variant: the nested list is stored without the test for its presence;
\* a result without one leaves the candidate list empty.
DemoTail_alwaysTop(d, resp) ==
  LET res == callEndpointResult(FALSE, resp)
  IN /\ CompleteCall("runDemoWorkflow", FALSE, resp)
     /\ IF res.threw
          THEN UNCHANGED << demoState, candidates, demoRunning >>
          ELSE /\ demoState' = IF Truthy(res.ret) THEN res.ret ELSE demoState
               /\ candidates' = IF Truthy(res.ret)
                                  THEN (IF res.ret.list THEN res.ret.ver ELSE 0)
                                  ELSE candidates
               /\ demoRunning' = FALSE
     /\ demos' = [demos EXCEPT ![d] = IdleDemo]

\* The tail of runDemoWorkflow once callEndpoint has returned:
\* if (data) { setDemoState(data); if (top_3) setCandidates(top_3) }
\* setDemoRunning(false).  Nothing of it runs when callEndpoint throws.
DemoTail(d, resp) ==
  LET res == callEndpointResult(FALSE, resp)
  IN /\ CompleteCall("runDemoWorkflow", FALSE, resp)
     /\ IF res.threw
          THEN UNCHANGED << demoState, candidates, demoRunning >>
          ELSE /\ demoState' = IF Truthy(res.ret) THEN res.ret ELSE demoState
               /\ candidates' = IF Truthy(res.ret) /\ res.ret.list
                                  THEN res.ret.ver ELSE candidates
               /\ demoRunning' = FALSE
     /\ demos' = [demos EXCEPT ![d] = IdleDemo]

\* The fetch promise of the terminal request of playback d settles.
DemoSettle(d, resp) ==
  /\ demos[d].st = "fetch"
  /\ resp.body.ver \in {0, backend}
  /\ IF resp.rejected
       THEN DemoTail(d, resp)
       ELSE /\ demos' = [demos EXCEPT ![d].st = "json", ![d].resp = resp]
            /\ UNCHANGED << candidates, demoRunning, demoState, loading,
                            alertText, lastCall, fetches, latest >>
  /\ UNCHANGED << slots, activeTab, agentLogs, isInternalMode, funnelStages, variant, backend, mounted,
                  consoleErr, now, appended, calls >>

\* The json() promise of the terminal request of playback d settles.
DemoJson(d) ==
  /\ demos[d].st = "json"
  /\ DemoTail(d, demos[d].resp)
  /\ UNCHANGED << slots, activeTab, agentLogs, isInternalMode, funnelStages, variant, backend, mounted,
                  consoleErr, now, appended, calls >>

(* ---------------------------------------------------------------------- *)
(* Specifications                                                         *)
(* ---------------------------------------------------------------------- *)
\* The state after the first render, before the mount effect has run.
Init ==
  /\ slots = [i \in Slots |-> Null]
  /\ candidates = 0
  /\ demoRunning = FALSE
  /\ demoState = NullData
  /\ loading = TRUE
  /\ activeTab = "dashboard"
  /\ agentLogs = << >>
  /\ isInternalMode \in BOOLEAN
  /\ mounted = FALSE
  /\ consoleErr = ""
  /\ alertText = ""
  /\ lastCall = NoCall
  /\ backend = 1
  /\ now = 0
  /\ appended = << >>
  /\ funnelStages = << >>
  /\ variant = "parallel"
  /\ latest = NoLatest
  /\ fetches = [r \in RunIds |-> IdleRun]
  /\ calls = [c \in CallIds |-> IdleCall]
  /\ demos = [d \in DemoIds |-> IdleDemo]

\* A session opened without ?internal=true, and one opened with it.
InitPublic == Init /\ isInternalMode = FALSE

InitInternal == Init /\ isInternalMode = TRUE

\* Nothing is in flight.
Quiet ==
  /\ \A r \in RunIds : fetches[r].st = "idle"
  /\ \A c \in CallIds : calls[c].st = "idle"
  /\ \A d \in DemoIds : demos[d].st = "idle"

\* The whole view: every event at any time.
Next ==
  \/ Mount
  \/ ClickRefresh
  \/ \E r \in RunIds, f \in Faults, v \in Vers : FetchSettle(r, f, v)
  \/ \E r \in RunIds : FetchJson(r)
  \/ \E id \in TabIds : setActiveTab(id)
  \/ ClickGetStats
  \/ ClickSearch
  \/ \E c \in CallIds, resp \in CallResponses : CallSettle(c, resp)
  \/ \E c \in CallIds : CallJson(c)
  \/ ClickRunDemo
  \/ ClickRunDemoReview
  \/ ClickClear
  \/ \E d \in DemoIds : TimerFire(d)
  \/ \E d \in DemoIds, resp \in CallResponses : DemoSettle(d, resp)
  \/ \E d \in DemoIds : DemoJson(d)
  \/ ClockTick
  \/ BackendUpdate

Spec == Init /\ [][Next]_vars

\* The Data Fetcher alone: the user only refreshes, and only when the
\* previous batch has completed.
NextFetch ==
  \/ Mount
  \/ Quiet /\ ClickRefresh
  \/ \E r \in RunIds, f \in Faults, v \in Vers : FetchSettle(r, f, v)
  \/ \E r \in RunIds : FetchJson(r)
  \/ BackendUpdate

SpecFetch == InitPublic /\ [][NextFetch]_vars

FairFetch ==
  /\ SpecFetch
  /\ WF_vars(Mount)
  /\ \A r \in RunIds : WF_vars(\E f \in Faults, v \in Vers : FetchSettle(r, f, v))
  /\ \A r \in RunIds : WF_vars(FetchJson(r))

\* A batch is answered in full or one of its requests is refused.
PlainFaults == {NoFault, [kind |-> "reject", pos |-> 1]}

\* The Action Dispatcher with the Data Fetcher: one user action at a time,
\* on the Dashboard and AI Agents tabs.
NextCall ==
  \/ Mount
  \/ Quiet /\ ClickRefresh
  \/ \E r \in RunIds, f \in PlainFaults, v \in Vers : FetchSettle(r, f, v)
  \/ \E r \in RunIds : FetchJson(r)
  \/ \E id \in {"dashboard", "agents"} : Quiet /\ setActiveTab(id)
  \/ Quiet /\ ClickGetStats
  \/ Quiet /\ ClickSearch
  \/ \E c \in CallIds, resp \in CallResponses : CallSettle(c, resp)
  \/ \E c \in CallIds : CallJson(c)
  \/ BackendUpdate

SpecCall == InitPublic /\ [][NextCall]_vars

\* The Demo Playback Engine as the Dashboard offers it: playbacks start
\* from the Run Full Demo button only; the user refreshes when nothing is
\* in flight.
NextDash ==
  \/ Mount
  \/ Quiet /\ ClickRefresh
  \/ \E r \in RunIds, f \in PlainFaults, v \in Vers : FetchSettle(r, f, v)
  \/ \E r \in RunIds : FetchJson(r)
  \/ ClickRunDemo
  \/ ClickClear
  \/ \E d \in DemoIds : TimerFire(d)
  \/ \E d \in DemoIds, resp \in CallResponses : DemoSettle(d, resp)
  \/ \E d \in DemoIds : DemoJson(d)
  \/ BackendUpdate

SpecDash == InitPublic /\ [][NextDash]_vars

FairDash ==
  /\ SpecDash
  /\ WF_vars(Mount)
  /\ \A r \in RunIds : WF_vars(\E f \in PlainFaults, v \in Vers : FetchSettle(r, f, v))
  /\ \A r \in RunIds : WF_vars(FetchJson(r))
  /\ \A d \in DemoIds : WF_vars(TimerFire(d))
  /\ \A d \in DemoIds : WF_vars(\E resp \in CallResponses : DemoSettle(d, resp))
  /\ \A d \in DemoIds : WF_vars(DemoJson(d))

\* A batch is answered in full, refused, or one of its bodies does not
\* parse.
SomeFaults == PlainFaults \cup {[kind |-> "text200", pos |-> 2]}

\* The two ways the view reports a failure: batches that fail in either
\* way, and button-triggered calls with and without surfacing, one user
\* action at a time.
NextAlert ==
  \/ Mount
  \/ Quiet /\ ClickRefresh
  \/ \E r \in RunIds, f \in SomeFaults, v \in Vers : FetchSettle(r, f, v)
  \/ \E r \in RunIds : FetchJson(r)
  \/ \E id \in {"dashboard", "agents"} : Quiet /\ setActiveTab(id)
  \/ Quiet /\ ClickGetStats
  \/ Quiet /\ ClickSearch
  \/ \E c \in CallIds, resp \in CallResponses : CallSettle(c, resp)
  \/ \E c \in CallIds : CallJson(c)
  \/ BackendUpdate

SpecAlert == InitPublic /\ [][NextAlert]_vars

\* The public view as one user works it: a refresh, a tab change, a
\* button-triggered call or a playback starts when nothing else is in
\* flight.
NextView ==
  \/ Mount
  \/ Quiet /\ ClickRefresh
  \/ \E r \in RunIds, f \in PlainFaults, v \in Vers : FetchSettle(r, f, v)
  \/ \E r \in RunIds : FetchJson(r)
  \/ \E id \in {"dashboard", "agents"} : Quiet /\ setActiveTab(id)
  \/ Quiet /\ ClickGetStats
  \/ Quiet /\ ClickSearch
  \/ \E c \in CallIds, resp \in CallResponses : CallSettle(c, resp)
  \/ \E c \in CallIds : CallJson(c)
  \/ Quiet /\ ClickRunDemo
  \/ ClickClear
  \/ \E d \in DemoIds : TimerFire(d)
  \/ \E d \in DemoIds, resp \in CallResponses : DemoSettle(d, resp)
  \/ \E d \in DemoIds : DemoJson(d)
  \/ BackendUpdate

SpecView == InitPublic /\ [][NextView]_vars

\* The navigation bar in either mode: the user selects any tab that is
\* rendered, at any time, also while a batch is loading or a playback
\* started on the Dashboard is running; refreshes happen when nothing is
\* in flight.  The demo endpoint fails.
NextNav ==
  \/ Mount
  \/ Quiet /\ ClickRefresh
  \/ \E r \in RunIds, f \in PlainFaults, v \in Vers : FetchSettle(r, f, v)
  \/ \E r \in RunIds : FetchJson(r)
  \/ \E id \in TabIds : setActiveTab(id)
  \/ Quiet /\ ClickRunDemo
  \/ \E d \in DemoIds : TimerFire(d)
  \/ \E d \in DemoIds, resp \in CallResponses :
        resp.rejected /\ DemoSettle(d, resp)
  \/ BackendUpdate

SpecNav == Init /\ [][NextNav]_vars

\* The Data Fetcher with an impatient user: Refresh is clicked at any
\* time, also while a batch is in flight; every request is answered in
\* full with what the backend serves at that moment.
NextOverlap ==
  \/ Mount
  \/ ClickRefresh
  \/ \E r \in RunIds, v \in Vers : FetchSettle(r, NoFault, v)
  \/ \E r \in RunIds : FetchJson(r)
  \/ BackendUpdate

SpecOverlap == InitPublic /\ [][NextOverlap]_vars

\* The faults of a sequential run: at the status or the agents request.
SeqFaults == {f \in Faults : f.pos <= NSeqSlots}

\* The two Data Fetchers side by side: the view is the nine-slot one with
\* the parallel batch or the two-slot one with the sequential requests.
InitOrder ==
  /\ slots = [i \in Slots |-> Null]
  /\ candidates = 0
  /\ demoRunning = FALSE
  /\ demoState = NullData
  /\ loading = TRUE
  /\ activeTab = "dashboard"
  /\ agentLogs = << >>
  /\ isInternalMode = FALSE
  /\ mounted = FALSE
  /\ consoleErr = ""
  /\ alertText = ""
  /\ lastCall = NoCall
  /\ backend = 1
  /\ now = 0
  /\ appended = << >>
  /\ funnelStages = << >>
  /\ variant \in {"parallel", "sequential"}
  /\ latest = NoLatest
  /\ fetches = [r \in RunIds |-> IdleRun]
  /\ calls = [c \in CallIds |-> IdleCall]
  /\ demos = [d \in DemoIds |-> IdleDemo]

NextOrder ==
  \/ variant = "parallel" /\ Mount
  \/ variant = "parallel" /\ Quiet /\ ClickRefresh
  \/ \E r \in RunIds, f \in Faults, v \in Vers : FetchSettle(r, f, v)
  \/ \E r \in RunIds : FetchJson(r)
  \/ SeqMount
  \/ Quiet /\ SeqClickRefresh
  \/ \E r \in RunIds, f \in SeqFaults, v \in Vers : SeqFetchSettle(r, f, v)
  \/ \E r \in RunIds : SeqFetchJson(r)
  \/ BackendUpdate

SpecOrder == InitOrder /\ [][NextOrder]_vars

\* The tabs whose control both modes render.
PublicTabIds == {Tabs[i].id : i \in {j \in 1..Len(Tabs) : Tabs[j].public}}

\* A session in which the mode is switched at any time, so that every
\* state is reached in both modes: the user works the tabs, buttons and
\* playback that both modes offer, one activity at a time.  The data of
\* the backend stay as they are and the demo endpoint is unreachable.
NextMode ==
  \/ Mount
  \/ Quiet /\ ClickRefresh
  \/ \E r \in RunIds, f \in PlainFaults, v \in Vers : FetchSettle(r, f, v)
  \/ \E r \in RunIds : FetchJson(r)
  \/ \E id \in PublicTabIds : Quiet /\ setActiveTab(id)
  \/ Quiet /\ ClickGetStats
  \/ Quiet /\ ClickSearch
  \/ \E c \in CallIds, resp \in CallResponses : CallSettle(c, resp)
  \/ \E c \in CallIds : CallJson(c)
  \/ Quiet /\ ClickRunDemo
  \/ \E d \in DemoIds : TimerFire(d)
  \/ \E d \in DemoIds, resp \in CallResponses :
        resp.rejected /\ DemoSettle(d, resp)
  \/ LocationChange

SpecMode == Init /\ [][NextMode]_vars

(* ---------------------------------------------------------------------- *)
(* The funnel of the Pipeline tab                                         *)
(* ---------------------------------------------------------------------- *)

\* Variant: the smaller of the two numbers.
MathMax_min(a, b) == IF a < b THEN a ELSE b

\* Math.max on two numbers.
MathMax(a, b) == IF a > b THEN a ELSE b

\* funnel?.funnel?.map(...): one bar per stage, built from the front of
\* the list; the label shows the percentage, the bar's width is floored.
RECURSIVE FunnelMap(_)
FunnelMap(stages) ==
  IF stages = << >> THEN << >>
  ELSE << [percentage |-> Head(stages), width |-> MathMax(Head(stages), 10)] >>
         \o FunnelMap(Tail(stages))

\* The bars renderPipeline draws.
FunnelBars == FunnelMap(funnelStages)

\* Percentages a stage can report, and the funnel lists of the backend.
Percentages == {0, 5, 10, 50, 100}

FunnelLists == UNION {[1..n -> Percentages] : n \in 0..MaxStages}

\* The view after a first batch whose funnel body carries any list.
InitFunnel ==
  /\ slots = [i \in Slots |-> 1]
  /\ candidates = 0
  /\ demoRunning = FALSE
  /\ demoState = NullData
  /\ loading = FALSE
  /\ activeTab = "dashboard"
  /\ agentLogs = << >>
  /\ isInternalMode \in BOOLEAN
  /\ mounted = TRUE
  /\ consoleErr = ""
  /\ alertText = ""
  /\ lastCall = NoCall
  /\ backend = 1
  /\ now = 0
  /\ appended = << >>
  /\ funnelStages \in FunnelLists
  /\ variant = "parallel"
  /\ latest = NoLatest
  /\ fetches = [r \in RunIds |-> IdleRun]
  /\ calls = [c \in CallIds |-> IdleCall]
  /\ demos = [d \in DemoIds |-> IdleDemo]

\* The user moves between the tabs of the loaded view.
NextFunnel ==
  \/ \E id \in TabIds : setActiveTab(id)
  \/ LocationChange

SpecFunnel == InitFunnel /\ [][NextFunnel]_vars

\* The answers of an unreachable or broken demo endpoint.
FailedResponses == {resp \in CallResponses : resp.rejected \/ ~resp.isJson}

\* The Demo Playback Engine in internal mode, where the Review tab offers
\* a second Run Demo Workflow button: the user starts playbacks from either
\* button at any time, and refreshes or changes tab when nothing is in
\* flight.  The demo endpoint fails.
NextDemo ==
  \/ Mount
  \/ Quiet /\ ClickRefresh
  \/ \E r \in RunIds, f \in PlainFaults, v \in Vers : FetchSettle(r, f, v)
  \/ \E r \in RunIds : FetchJson(r)
  \/ \E id \in {"dashboard", "review"} : Quiet /\ setActiveTab(id)
  \/ ClickRunDemo
  \/ ClickRunDemoReview
  \/ ClickClear
  \/ \E d \in DemoIds : TimerFire(d)
  \/ \E d \in DemoIds, resp \in FailedResponses : DemoSettle(d, resp)
  \/ \E d \in DemoIds : DemoJson(d)
  \/ BackendUpdate

SpecDemo == InitInternal /\ [][NextDemo]_vars

\* The agent log alone: any sequence of addLog calls with the entries of
\* the script, of the reset at the start of a playback and of the Clear
\* button, on the loaded Dashboard.
LogAdd ==
  /\ Len(appended) < MaxAppends
  /\ LET e == Script[(Len(appended) % ScriptLen) + 1]
     IN /\ agentLogs' = addLog(agentLogs, e, now)
        /\ appended' = Append(appended, LogEntry(e, now))
  /\ UNCHANGED << slots, candidates, demoRunning, demoState, loading,
                  activeTab, isInternalMode, funnelStages, variant, backend, mounted, consoleErr,
                  alertText, lastCall, now, fetches, latest, calls, demos >>

\* setAgentLogs([]); addLog(first entry) of runDemoWorkflow.
LogRestart ==
  /\ Len(appended) > 0
  /\ agentLogs' = addLog(<< >>, Script[1], now)
  /\ appended' = << LogEntry(Script[1], now) >>
  /\ UNCHANGED << slots, candidates, demoRunning, demoState, loading,
                  activeTab, isInternalMode, funnelStages, variant, backend, mounted, consoleErr,
                  alertText, lastCall, now, fetches, latest, calls, demos >>

InitLog ==
  /\ slots = [i \in Slots |-> 1]
  /\ candidates = 0
  /\ demoRunning = FALSE
  /\ demoState = NullData
  /\ loading = FALSE
  /\ activeTab = "dashboard"
  /\ agentLogs = << >>
  /\ isInternalMode = FALSE
  /\ mounted = TRUE
  /\ consoleErr = ""
  /\ alertText = ""
  /\ lastCall = NoCall
  /\ backend = 1
  /\ now = 0
  /\ appended = << >>
  /\ funnelStages = StagesOf(1)
  /\ variant = "parallel"
  /\ latest = NoLatest
  /\ fetches = [r \in RunIds |-> IdleRun]
  /\ calls = [c \in CallIds |-> IdleCall]
  /\ demos = [d \in DemoIds |-> IdleDemo]

NextLog ==
  \/ LogAdd
  \/ LogRestart
  \/ ClickClear
  \/ ClockTick

SpecLog == InitLog /\ [][NextLog]_vars

\* Playbacks one after the other on the loaded Dashboard, while the wall
\* clock advances: the terminal request gets any answer, the refresh that
\* follows a successful one is answered in full or refused.
NextPlay ==
  \/ ClickRunDemo
  \/ \E d \in DemoIds : TimerFire(d)
  \/ \E d \in DemoIds, resp \in CallResponses : DemoSettle(d, resp)
  \/ \E d \in DemoIds : DemoJson(d)
  \/ \E r \in RunIds, f \in PlainFaults, v \in Vers : FetchSettle(r, f, v)
  \/ \E r \in RunIds : FetchJson(r)
  \/ ClockTick

SpecPlay == InitLog /\ [][NextPlay]_vars

(* ---------------------------------------------------------------------- *)
(* Properties                                                             *)
(* ---------------------------------------------------------------------- *)
\* A playback is Playing or Fetching.
Playing == \E d \in DemoIds : demos[d].st # "idle"

\* C1: when one of the batched GET requests of a fetchData run rejects, the
\* step that handles the rejection ends the run, changes no slot and leaves
\* loading false.
C1_RejectKeepsSlots ==
  [][\A r \in RunIds, f \in Faults, v \in Vers :
       (f.kind = "reject" /\ FetchSettle(r, f, v))
         => /\ slots' = slots
            /\ loading' = FALSE
            /\ fetches'[r] = IdleRun]_vars

\* C1 witness: the first batch was refused by the network: every slot is
\* still null, the rejection was logged and loading is false.
C1_Witness ==
  /\ mounted /\ Quiet
  /\ consoleErr = "TypeError"
  /\ ~loading
  /\ \A i \in Slots : slots[i] = Null

\* C2 (as claimed): a fetchData run one of whose responses has a non-JSON
\* body updates no slot at all, whichever position the bad response holds.
C2_ParseFailureKeepsSlots ==
  [][\A r \in RunIds :
       (/\ fetches[r].st = "json"
        /\ \E i \in Slots : ~Response(fetches[r].fault, fetches[r].ver, i).isJson
        /\ fetches'[r] # fetches[r])
         => slots' = slots]_vars

\* C3 (as claimed): in a batch whose third request is answered with HTTP
\* 500 the slots of the first and second request keep their values.
C3_Http500KeepsSlots ==
  [][\A r \in RunIds :
       (/\ fetches[r].st = "json"
        /\ Response(fetches[r].fault, fetches[r].ver, 3).status = 500
        /\ fetches'[r] # fetches[r])
         => slots'[1] = slots[1] /\ slots'[2] = slots[2]]_vars

\* C4: a fetchData run in flight always comes to its end, and loading is
\* false when it has, whether the batch succeeded or failed.
C4_LoadingClears ==
  (\E r \in RunIds : fetches[r].st # "idle")
    ~> ((\A r \in RunIds : fetches[r].st = "idle") /\ ~loading)

\* C4 witness: a batch has failed and loading is false again.
C4_Witness ==
  /\ mounted /\ Quiet
  /\ consoleErr = "SyntaxError"
  /\ ~loading
  /\ \E i \in Slots : slots[i] # Null

\* C5 (as claimed): at most one playback is in flight, and the log is a
\* prefix of the script, in script order.
C5_SinglePlayback ==
  /\ Cardinality({d \in DemoIds : demos[d].st # "idle"}) <= 1
  /\ Len(agentLogs) <= ScriptLen
  /\ \A i \in 1..Len(agentLogs) :
       /\ agentLogs[i].agent = Script[i].agent
       /\ agentLogs[i].message = Script[i].message
       /\ agentLogs[i].type = Script[i].type

\* C6 (as claimed): while a playback is Playing or Fetching no control
\* that starts a playback is rendered and enabled.
C6_TriggersDisabled ==
  Playing => ~DashboardDemoButton /\ ~ReviewDemoButton

\* C7 (as claimed): the log never holds more than 50 entries, and after 60
\* appends it holds the 50 most recent ones, oldest first.
C7_LogCap ==
  /\ Len(agentLogs) <= 50
  /\ Len(appended) = 60 => agentLogs = SubSeq(appended, 11, 60)

\* new is old without its j oldest entries, followed by one more entry;
\* entries are dropped only from a log that holds at least 50.
AppendEvict(old, new) ==
  \E j \in 0..Len(old) :
    /\ Len(new) = Len(old) - j + 1
    /\ \A i \in 1..(Len(old) - j) : new[i] = old[j + i]
    /\ j > 0 => Len(old) >= 50

\* C8 (as claimed): every step that changes the log appends one entry and
\* removes nothing but the oldest entries of a full log.
C8_OnlyEviction ==
  [][agentLogs' = agentLogs \/ AppendEvict(agentLogs, agentLogs')]_vars

\* C8 (amended): every step that changes the log either empties it (Clear),
\* replaces it by the first entry of a new playback, or appends one entry
\* and removes nothing but the oldest entries of a full log; entries are
\* never reordered.
C8_EvictionOrReset ==
  [][\/ agentLogs' = agentLogs
     \/ agentLogs' = << >>
     \/ Len(agentLogs') = 1
     \/ AppendEvict(agentLogs, agentLogs')]_vars

\* C8 witness: entries have been evicted: the log is the tail of what was
\* appended since it was last emptied, and shorter than it.
C8_Witness ==
  /\ Len(appended) > Len(agentLogs)
  /\ Len(agentLogs) >= 50
  /\ agentLogs = SubSeq(appended, Len(appended) - Len(agentLogs) + 1, Len(appended))

\* C9: once a playback has started demoRunning becomes false again.
C9_DemoReturnsToIdle == demoRunning ~> ~demoRunning

\* C9 witness: a playback has run to its end, its terminal fetch failed,
\* and demoRunning is false.
C9_Witness ==
  /\ ~demoRunning /\ ~Playing
  /\ Len(agentLogs) = ScriptLen
  /\ lastCall.caller = "runDemoWorkflow"
  /\ lastCall.resp.rejected \/ ~lastCall.resp.isJson
  /\ lastCall.ret = NullData

\* C10: a finished callEndpoint invocation has not thrown; it returned null
\* when the request was rejected or its body did not parse, and the parsed
\* body otherwise.
C10_NeverRaises ==
  lastCall.caller # "none" =>
    /\ ~lastCall.threw
    /\ lastCall.ret = IF lastCall.resp.rejected \/ ~lastCall.resp.isJson
                        THEN NullData ELSE lastCall.resp.body

\* C10 witness: a button-triggered call whose request was rejected has
\* returned null.
C10_Witness ==
  /\ lastCall.caller = "getStats"
  /\ lastCall.resp.rejected
  /\ ~lastCall.threw
  /\ lastCall.ret = NullData

\* The request of a finished call was answered and the body parsed.
CallSucceeded(resp) == ~resp.rejected /\ resp.isJson

\* C11 (as claimed): a Get Stats call (surfacing enabled) answered with a
\* non-2xx status has returned null and shown the error alert.
C11_Non2xxIsFailure ==
  (lastCall.caller = "getStats" /\ lastCall.resp.status = 500) =>
    /\ lastCall.ret = NullData
    /\ alertText = "error"

\* Step of the view in which call c or terminal request d comes to its end.
CallEnds(c) == calls[c].st # "idle" /\ calls'[c].st = "idle"

DemoCallEnds(d) == demos[d].st \in {"fetch", "json"} /\ demos'[d].st = "idle"

\* Step in which fetchData is invoked: run r leaves idle.
RunStarts(r) == fetches[r].st = "idle" /\ fetches'[r].st = "all"

\* C12 (as claimed): the step that ends a callEndpoint invocation starts a
\* fetchData run, whether the request succeeded or failed.
C12_RefreshAfterEveryCall ==
  [][\A c \in CallIds : CallEnds(c) => \E r \in RunIds : RunStarts(r)]_vars

Tuple(e) == [agent |-> e.agent, message |-> e.message, type |-> e.type]

Tuples(log) == [i \in 1..Len(log) |-> Tuple(log[i])]

\* C14: playback d issues the request to /api/demo/workflow in the step
\* that appends the last entry of the script and in no other; once issued
\* the request is only answered, not issued again; a step that leaves the
\* playback Playing issues no request at all.
C14_OneTerminalFetch ==
  [][\A d \in DemoIds :
       /\ (demos[d].st # "fetch" /\ demos'[d].st = "fetch") =>
            /\ demos[d].st = "timer"
            /\ demos[d].k = ScriptLen - 1
            /\ demos'[d].k = ScriptLen
            /\ Len(agentLogs') > 0
            /\ Tuple(agentLogs'[Len(agentLogs')]) = Script[ScriptLen]
       /\ demos[d].st = "fetch" => demos'[d].st \in {"fetch", "json", "idle"}
       /\ demos[d].st = "json" => demos'[d].st \in {"json", "idle"}
       /\ (demos[d].st = "timer" /\ demos'[d].st = "timer" /\ demos'[d].k # demos[d].k)
            => UNCHANGED << fetches, latest, calls >>]_vars

\* C14 witness: the whole script is in the log and the terminal request of
\* the playback is in flight.
C14_Witness ==
  /\ \E d \in DemoIds : demos[d].st = "fetch" /\ demos[d].k = ScriptLen
  /\ Tuples(agentLogs) = Script
  /\ demoRunning

\* C15: whenever a playback has run to its end and no other has started,
\* the log without its timestamps is the script, entry for entry, whatever
\* the terminal request was answered and whatever the backend serves.  Any
\* two complete playbacks therefore leave the same tuples in the same order.
C15_ScriptDeterminism ==
  (~Playing /\ lastCall.caller = "runDemoWorkflow") => Tuples(agentLogs) = Script

\* C15 witness: a second playback has ended, its terminal request failed
\* where that of an earlier one had succeeded; its log is the script, with
\* timestamps that are not all the same.
C15_Witness ==
  /\ ~Playing /\ ~demoRunning
  /\ lastCall.caller = "runDemoWorkflow"
  /\ ~CallSucceeded(lastCall.resp)
  /\ demoState # NullData
  /\ Tuples(agentLogs) = Script
  /\ agentLogs[1].timestamp # agentLogs[ScriptLen].timestamp

\* C16 (as claimed): the step that ends a playback whose terminal request
\* succeeded stores the parsed result in demoState, and stores the result's
\* top list in candidates exactly when the result has one.
C16_ResultReplacesState ==
  [][\A d \in DemoIds :
       (/\ DemoCallEnds(d)
        /\ CallSucceeded(lastCall'.resp)
        /\ lastCall'.resp.status = 200)
         => /\ demoState' = lastCall'.resp.body
            /\ candidates' = IF lastCall'.resp.body.list
                               THEN lastCall'.resp.body.ver ELSE candidates]_vars

\* C16 (amended): the step that ends a playback whose terminal request
\* succeeded with a result that is not null stores the result in demoState,
\* and its top list in candidates exactly when it has one; a null result
\* leaves demoState and candidates as they were.
C16_TruthyResultReplacesState ==
  [][\A d \in DemoIds :
       (/\ DemoCallEnds(d)
        /\ CallSucceeded(lastCall'.resp)
        /\ lastCall'.resp.status = 200)
         => IF Truthy(lastCall'.resp.body)
              THEN /\ demoState' = lastCall'.resp.body
                   /\ candidates' = IF lastCall'.resp.body.list
                                      THEN lastCall'.resp.body.ver ELSE candidates
              ELSE UNCHANGED << demoState, candidates >>]_vars

\* C16 witness: a playback has ended whose result had no top list: the
\* result is in demoState and the candidate list is still the one an
\* earlier playback stored.
C16_Witness ==
  /\ ~Playing
  /\ lastCall.caller = "runDemoWorkflow"
  /\ CallSucceeded(lastCall.resp) /\ lastCall.resp.status = 200
  /\ Truthy(lastCall.resp.body) /\ ~lastCall.resp.body.list
  /\ demoState = lastCall.resp.body
  /\ candidates # 0

\* The bodies of the batch that run r received, by position.
BodiesOf(r) ==
  [i \in Slots |-> Response(fetches[r].fault, fetches[r].ver, i).body]

\* C17: a fetchData run that gets to its last statement leaves in every
\* slot the body of its own response, whatever the slot held before; and
\* a run whose responses are the ones the slots already hold, as an
\* identical earlier run left them, changes no slot in any of its steps.
C17_IdempotentRefresh ==
  [][\A r \in RunIds :
       /\ (/\ fetches[r].st = "json" /\ fetches[r].k = NSlots
           /\ Response(fetches[r].fault, fetches[r].ver, NSlots).isJson
           /\ fetches'[r].st = "idle")
            => slots' = BodiesOf(r)
       /\ (fetches[r].st = "json" /\ slots = BodiesOf(r))
            => slots' = slots]_vars

\* C17 witness: a second run has received its responses and is about to
\* store the first; they are the bodies an earlier run left in the slots.
C17_Witness ==
  \E r \in RunIds :
    /\ fetches[r].st = "json" /\ fetches[r].k = 1
    /\ fetches[r].fault = NoFault
    /\ slots = BodiesOf(r)

\* C18: a step that changes activeTab selects a tab whose control is
\* rendered and changes nothing else: no slot, no flag, no log, no demo
\* state, and no request is issued.
C18_TabSelectionFetchFree ==
  [][activeTab' # activeTab =>
       /\ TabRendered(activeTab')
       /\ UNCHANGED << slots, candidates, demoRunning, demoState, loading,
                       agentLogs, fetches, latest, calls, demos >>]_vars

\* C18 witness: the user left the Dashboard while a playback was Playing;
\* the playback went on to its last entry and its terminal request.
C18_Witness ==
  /\ activeTab = "agents"
  /\ \E d \in DemoIds : demos[d].st = "fetch"
  /\ Tuples(agentLogs) = Script
  /\ ~loading

\* The queue_length of the screening queue slot, -1 when the slot holds
\* no queue.
QueueLength ==
  IF slots[SlotOf("screeningQueue")] \in Vers
    THEN QueueLengthOf(slots[SlotOf("screeningQueue")])
    ELSE -1

\* C19 (as claimed): with queue_length = 0 the Review tab control is not
\* rendered, with queue_length = 3 it is rendered and its badge shows 3.
C19_ReviewTabByQueue ==
  /\ QueueLength = 0 => ~TabRendered("review")
  /\ QueueLength = 3 => TabRendered("review") /\ ReviewBadge = 3

\* C19 (amended): in internal mode the Review tab control is rendered
\* exactly when queue_length is positive, with queue_length in its badge
\* (with 3 for a queue of 3); in public mode it is never rendered.
C19_ReviewTabInternalOnly ==
  /\ QueueLength <= 0 => ~TabRendered("review") /\ ReviewBadge = 0
  /\ (isInternalMode /\ QueueLength > 0)
       => TabRendered("review") /\ ReviewBadge = QueueLength
  /\ (isInternalMode /\ QueueLength = 3) => ReviewBadge = 3
  /\ ~isInternalMode => ~TabRendered("review")

\* C19 witness: internal mode, a loaded queue of three: the Review tab
\* control is rendered and its badge shows 3.
C19_Witness ==
  /\ isInternalMode
  /\ QueueLength = 3
  /\ TabRendered("review")
  /\ ReviewBadge = 3

\* Step in which run r ends in the catch block of fetchData.
RunFails(r) ==
  /\ fetches'[r].st = "idle"
  /\ \/ fetches[r].st = "all"
     \/ /\ fetches[r].st = "json"
        /\ ~Response(fetches[r].fault, fetches[r].ver, fetches[r].k).isJson

\* C20: the step in which a fetchData run fails shows no alert and hands
\* the error to console.error; the step in which a callEndpoint invocation
\* with surfacing fails shows the error alert.
C20_BatchFailuresSilent ==
  [][/\ \A r \in RunIds :
          RunFails(r) => /\ alertText' = alertText
                         /\ consoleErr' \in {"TypeError", "SyntaxError"}
     /\ \A c \in CallIds :
          (CallEnds(c) /\ calls[c].showAlert /\ ~CallSucceeded(lastCall'.resp))
            => alertText' = "error"]_vars

\* C20 witness: a batch has failed on a body that does not parse and no
\* alert has ever been shown, although a call without surfacing failed too.
C20_Witness ==
  /\ mounted /\ Quiet
  /\ consoleErr = "SyntaxError"
  /\ alertText = ""
  /\ lastCall.caller = "searchCandidates"
  /\ ~CallSucceeded(lastCall.resp)

\* The requests of the view, by the place that issues them: the batch of
\* fetchData, the POST of a Get Stats button, the POST of searchCandidates
\* and the GET of runDemoWorkflow.  Each place passes literal arguments.
RequestKinds == {"batch", "getStats", "searchCandidates", "demoWorkflow"}

\* Step in which a request of kind q is issued.
Issues(q) ==
  IF q = "batch" THEN \E r \in RunIds : RunStarts(r)
  ELSE IF q = "demoWorkflow"
    THEN \E d \in DemoIds : demos[d].st # "fetch" /\ demos'[d].st = "fetch"
  ELSE \E c \in CallIds : /\ calls[c].st = "idle"
                           /\ calls'[c].st = "fetch"
                           /\ calls'[c].caller = q

\* Step that issues the requests of the kinds in Q and no other; a step of
\* the view issues requests of one kind at most.
IssuesExactly(Q) == \A q \in RequestKinds : Issues(q) <=> q \in Q

RequestSets == {{}} \cup {{q} : q \in RequestKinds}

\* C21: the two states before and after a change of mode differ in the
\* mode only, and every event the two modes share is possible in both or
\* in neither, and issues the same requests in both: mounting, a click on
\* Refresh, on a public tab, on a button of a public tab, a timer, and
\* every answer of the network.
C21_ModeFreeRequests ==
  [][LocationChange =>
       \A Q \in RequestSets :
         /\ (ENABLED (Mount /\ IssuesExactly(Q)))
              <=> (ENABLED (Mount /\ IssuesExactly(Q)))'
         /\ (ENABLED (ClickRefresh /\ IssuesExactly(Q)))
              <=> (ENABLED (ClickRefresh /\ IssuesExactly(Q)))'
         /\ (ENABLED (ClickGetStats /\ IssuesExactly(Q)))
              <=> (ENABLED (ClickGetStats /\ IssuesExactly(Q)))'
         /\ (ENABLED (ClickSearch /\ IssuesExactly(Q)))
              <=> (ENABLED (ClickSearch /\ IssuesExactly(Q)))'
         /\ (ENABLED (ClickRunDemo /\ IssuesExactly(Q)))
              <=> (ENABLED (ClickRunDemo /\ IssuesExactly(Q)))'
         /\ \A id \in PublicTabIds :
              (ENABLED (setActiveTab(id) /\ IssuesExactly(Q)))
                <=> (ENABLED (setActiveTab(id) /\ IssuesExactly(Q)))'
         /\ \A r \in RunIds :
              (ENABLED (FetchJson(r) /\ IssuesExactly(Q)))
                <=> (ENABLED (FetchJson(r) /\ IssuesExactly(Q)))'
         /\ \A c \in CallIds :
              (ENABLED (CallJson(c) /\ IssuesExactly(Q)))
                <=> (ENABLED (CallJson(c) /\ IssuesExactly(Q)))'
         /\ \A c \in CallIds, resp \in CallResponses :
              (ENABLED (CallSettle(c, resp) /\ IssuesExactly(Q)))
                <=> (ENABLED (CallSettle(c, resp) /\ IssuesExactly(Q)))'
         /\ \A d \in DemoIds :
              (ENABLED (TimerFire(d) /\ IssuesExactly(Q)))
                <=> (ENABLED (TimerFire(d) /\ IssuesExactly(Q)))'
         /\ \A d \in DemoIds, resp \in CallResponses :
              (ENABLED (DemoSettle(d, resp) /\ IssuesExactly(Q)))
                <=> (ENABLED (DemoSettle(d, resp) /\ IssuesExactly(Q)))']_vars

\* C21 witness: an internal session with every slot loaded, in which the
\* answer to a Get Stats call is about to be parsed and followed by the
\* refresh batch.
C21_Witness ==
  /\ isInternalMode
  /\ activeTab = "agents"
  /\ \E c \in CallIds : calls[c].st = "json" /\ calls[c].caller = "getStats"
  /\ \A i \in Slots : slots[i] \in Vers

\* C22: on the Pipeline tab there is one bar per stage of the funnel, in
\* the order of the list; the width of a bar is its stage's percentage
\* when that is 10 or more, and 10 otherwise.
C22_FunnelBarWidth ==
  activeTab = "pipeline" =>
    /\ Len(FunnelBars) = Len(funnelStages)
    /\ \A i \in 1..Len(funnelStages) :
         /\ FunnelBars[i].percentage = funnelStages[i]
         /\ funnelStages[i] >= 10 => FunnelBars[i].width = funnelStages[i]
         /\ funnelStages[i] < 10 => FunnelBars[i].width = 10

\* C22 witness: the Pipeline tab shows a funnel of full length with a
\* stage under the floor, a stage at it and a stage over it, not in order.
C22_Witness ==
  /\ activeTab = "pipeline"
  /\ Len(funnelStages) = MaxStages
  /\ funnelStages[1] = 5
  /\ funnelStages[2] = 100
  /\ funnelStages[3] = 10

\* C23 (as claimed): while the dashboardStats slot is null, the stats
\* cards of the Dashboard show a loading placeholder and no values.
C23_PlaceholderForNullSlot ==
  (activeTab = "dashboard" /\ slots[SlotOf("dashboardStats")] = Null)
    => DashboardStatsCards = "placeholder"

\* C24: no step of a playback before its last changes demoState or the
\* candidate list, and the step that ends a playback whose terminal request
\* was refused or had an unparsable body gets null from callEndpoint, leaves
\* demoState, the candidate list and the alert as they were and starts no
\* fetchData run.
C24_FailedDemoKeepsState ==
  [][\A d \in DemoIds :
       /\ demos'[d].st # "idle" => UNCHANGED << demoState, candidates >>
       /\ (DemoCallEnds(d) /\ ~CallSucceeded(lastCall'.resp))
            => /\ lastCall'.ret = NullData
               /\ UNCHANGED << demoState, candidates, alertText >>
               /\ \A r \in RunIds : ~RunStarts(r)]_vars

\* C24 witness: a playback has ended on a failed request, and the result
\* and candidates of an earlier playback are still shown.
C24_Witness ==
  /\ ~Playing
  /\ lastCall.caller = "runDemoWorkflow"
  /\ ~CallSucceeded(lastCall.resp)
  /\ Truthy(demoState)
  /\ candidates # 0
  /\ \A r \in RunIds : fetches[r].st = "idle"

\* C27 (as claimed): demoRunning is true exactly while some invocation of
\* runDemoWorkflow has started and not finished.
C27_DemoRunningTracksPlayback == demoRunning <=> Playing

\* Step in which runDemoWorkflow is invoked as playback d.
DemoStarts(d) == demos[d].st = "idle" /\ demos'[d].st = "timer"

\* C28: the step that starts a playback leaves the first entry of the
\* script alone in the log, whatever the log held; and when a playback that
\* ran alone ends, the log holds 21 entries, the i-th with the agent,
\* message and type of the i-th scripted entry, from the Orchestrator's
\* 'Initializing recruiting workflow...' to its 'Workflow complete! ...'.
C28_SinglePlaybackLog ==
  [][\A d \in DemoIds :
       /\ DemoStarts(d) =>
            /\ Len(agentLogs') = 1
            /\ agentLogs'[1].agent = "Orchestrator"
            /\ agentLogs'[1].message = "Initializing recruiting workflow..."
       /\ DemoCallEnds(d) =>
            /\ Len(agentLogs') = 21
            /\ \A i \in 1..21 : Tuple(agentLogs'[i]) = Script[i]
            /\ agentLogs'[1].message = "Initializing recruiting workflow..."
            /\ agentLogs'[21].agent = "Orchestrator"
            /\ agentLogs'[21].message =
                 "Workflow complete! Human review required for 3 candidates"]_vars

\* C28 witness: a playback has ended whose request was answered with null,
\* after an earlier one whose result is still shown: the log that held the
\* 21 entries of the earlier playback holds the 21 of this one.
C28_Witness ==
  /\ ~Playing
  /\ lastCall.caller = "runDemoWorkflow"
  /\ CallSucceeded(lastCall.resp) /\ ~Truthy(lastCall.resp.body)
  /\ Truthy(demoState)
  /\ Len(agentLogs) = 21
  /\ agentLogs[21].type = "success"

\* C29 (as claimed): the control of the active tab is rendered in the
\* navigation bar, in every state.
C29_ActiveTabRendered == TabRendered(activeTab)

\* C29 (amended): the control of the active tab is rendered in the
\* navigation bar unless the active tab is Review; Review is the active tab
\* in internal mode only, and it stays the active tab when its control is
\* no longer rendered.
C29_ActiveTabRenderedUnlessReview ==
  /\ activeTab # "review" => TabRendered(activeTab)
  /\ activeTab = "review" => isInternalMode

\* C29 witness: Review was selected while the queue was positive; a
\* refresh has emptied the queue, the Review control is gone and Review is
\* still the tab shown.
C29_Witness ==
  /\ isInternalMode
  /\ TabShown("review")
  /\ QueueLength = 0
  /\ ~TabRendered("review")

\* Some fetchData batch is in flight.
BatchInFlight == \E r \in RunIds : fetches[r].st # "idle"

\* C25 (as claimed): loading is true while a fetchData batch is in flight.
C25_LoadingCoversBatches == BatchInFlight => loading

\* Step in which run r ends and leaves no batch in flight.
LastRunEnds(r) ==
  /\ fetches[r].st # "idle"
  /\ fetches'[r].st = "idle"
  /\ \A q \in RunIds \ {r} : fetches[q].st = "idle"

\* C26 (as claimed): when the last of the runs in flight ends, every slot
\* holds the body that the run started last received.
C26_NoStaleOverwrite ==
  [][\A r \in RunIds :
       LastRunEnds(r) => \A i \in Slots : slots'[i] = latest.ver]_vars

\* C30: in the batch, the step that settles Promise.all writes no slot;
\* each later step of the run handles the body at the next position k: a
\* body that parses is stored in slot k and in no other, and the run moves
\* to position k + 1; a body that does not parse ends the run with the
\* slots before k holding the bodies of this batch and no slot written.
\* In the sequential variant the agents request is issued only in the step
\* that stores the parsed status body, and a status request that is refused
\* or has an unparsable body ends the run with no slot written.
C30_SlotUpdateOrder ==
  [][\A r \in RunIds :
       fetches'[r] # fetches[r] =>
         /\ fetches[r].st = "all" =>
              /\ slots' = slots
              /\ fetches'[r].st = "json" => fetches'[r].k = 1
         /\ fetches[r].st = "json" =>
              LET k == fetches[r].k
              IN IF Response(fetches[r].fault, fetches[r].ver, k).isJson
                   THEN /\ slots' = [slots EXCEPT ![k] = BodiesOf(r)[k]]
                        /\ IF k < NSlots
                             THEN fetches'[r].st = "json" /\ fetches'[r].k = k + 1
                             ELSE fetches'[r].st = "idle"
                   ELSE /\ slots' = slots
                        /\ fetches'[r].st = "idle"
                        /\ \A i \in 1..(k - 1) : slots[i] = BodiesOf(r)[i]
         /\ (fetches'[r].st = "seqFetch" /\ fetches'[r].k = 2) =>
              /\ fetches[r].st = "seqJson" /\ fetches[r].k = 1
              /\ Response(fetches[r].fault, fetches[r].ver, 1).isJson
              /\ slots'[SlotOf("apiStatus")] = BodiesOf(r)[1]
         /\ (fetches[r].st = "seqFetch" /\ fetches[r].k = 1) =>
              /\ slots' = slots
              /\ \/ fetches'[r].st = "idle"
                 \/ fetches'[r].st = "seqJson" /\ fetches'[r].k = 1
         /\ (/\ fetches[r].st = "seqJson" /\ fetches[r].k = 1
             /\ ~Response(fetches[r].fault, fetches[r].ver, 1).isJson) =>
              /\ slots' = slots
              /\ fetches'[r].st = "idle"]_vars

\* C30 witness: a batch has ended on the unparsable body at position 3
\* after a reload of newer data: the first two slots hold the new bodies,
\* the others the ones of the load before.
C30_Witness ==
  /\ variant = "parallel"
  /\ consoleErr = "SyntaxError"
  /\ \A r \in RunIds : fetches[r].st = "idle"
  /\ slots[1] = 2 /\ slots[2] = 2
  /\ \A i \in 3..NSlots : slots[i] = 1

====
